---------------------------- MODULE Spec2Model ----------------------------
(***************************************************************************)
(* A model of the HTTP response-caching middleware of src/cache.go.        *)
(*                                                                         *)
(* Strings are sequences of byte codes, so that the query string is parsed *)
(* and re-encoded, the URL is rendered and the key is hashed byte by byte  *)
(* as the code does.  A 64-bit key is a tuple of four 16-bit limbs, least  *)
(* significant first, and FNV-1a is computed on it exactly (mod 2^64).     *)
(* Times are integer clock ticks; the zero time.Time is 0 and the clock    *)
(* starts at 1.                                                            *)
(***************************************************************************)
EXTENDS Integers, Sequences, FiniteSets, TLC

(***************************************************************************)
(* Bounds of the model.                                                    *)
(***************************************************************************)
\* The number of requests served in one behaviour.
MaxRequests == 2
\* The last tick of the clock.
MaxTime == 3

(***************************************************************************)
(* Byte codes of the characters the inputs are written with.  None of them *)
(* is changed by url.QueryEscape / url.QueryUnescape except the separators *)
(* themselves, which the inputs use only as separators.                    *)
(***************************************************************************)
Ch == [amp |-> 38, comma |-> 44, slash |-> 47, one |-> 49, two |-> 50,
       eq |-> 61, qm |-> 63, L |-> 76, M |-> 77, T |-> 84, a |-> 97, b |-> 98,
       c |-> 99, e |-> 101, h |-> 104, i |-> 105, r |-> 114, x |-> 120]

(***************************************************************************)
(* Strings.                                                                *)
(***************************************************************************)
\* Go's s < t on strings: lexicographic order of the bytes.
RECURSIVE StrLess(_, _)
StrLess(s, t) ==
    IF t = <<>> THEN FALSE
    ELSE IF s = <<>> THEN TRUE
    ELSE IF s[1] # t[1] THEN s[1] < t[1]
    ELSE StrLess(Tail(s), Tail(t))

\* strings.Join(elems, sep)
RECURSIVE Join(_, _)
Join(elems, sep) ==
    IF elems = <<>> THEN <<>>
    ELSE IF Len(elems) = 1 THEN elems[1]
    ELSE elems[1] \o sep \o Join(Tail(elems), sep)

\* The sequence xs with x inserted before the first element greater than x.
RECURSIVE InsertSorted(_, _)
InsertSorted(x, xs) ==
    IF xs = <<>> THEN <<x>>
    ELSE IF StrLess(x, xs[1]) THEN <<x>> \o xs
    ELSE <<xs[1]>> \o InsertSorted(x, Tail(xs))

\* sort.Slice(param, func(i, j) { return param[i] < param[j] })
RECURSIVE SortStrings(_)
SortStrings(xs) ==
    IF xs = <<>> THEN <<>> ELSE InsertSorted(xs[1], SortStrings(Tail(xs)))

\* strings.Cut(s, sep) for a one-byte separator: <<before, after, found>>.
RECURSIVE CutAt(_, _, _)
CutAt(s, sep, i) ==
    IF i > Len(s) THEN <<s, <<>>, FALSE>>
    ELSE IF s[i] = sep THEN <<SubSeq(s, 1, i - 1), SubSeq(s, i + 1, Len(s)), TRUE>>
    ELSE CutAt(s, sep, i + 1)

Cut(s, sep) == CutAt(s, sep, 1)

(***************************************************************************)
(* net/url: the query string.  url.Values is a function from the           *)
(* parameter names to the sequences of their values.                       *)
(***************************************************************************)
\* The key=value pairs of a raw query, in order; empty pairs are skipped.
RECURSIVE QueryPairs(_)
QueryPairs(raw) ==
    IF raw = <<>> THEN <<>>
    ELSE LET c == Cut(raw, Ch.amp)
             kv == Cut(c[1], Ch.eq)
         IN  IF c[1] = <<>> THEN QueryPairs(c[2])
             ELSE <<[k |-> kv[1], v |-> kv[2]]>> \o QueryPairs(c[2])

\* The values of name among the pairs, in order.
RECURSIVE ValuesOf(_, _)
ValuesOf(pairs, name) ==
    IF pairs = <<>> THEN <<>>
    ELSE (IF pairs[1].k = name THEN <<pairs[1].v>> ELSE <<>>)
         \o ValuesOf(Tail(pairs), name)

\* URL.Query(): url.ParseQuery(RawQuery), errors dropped.
Query(raw) ==
    LET pairs == QueryPairs(raw)
    IN  [name \in {pairs[j].k : j \in 1..Len(pairs)} |-> ValuesOf(pairs, name)]

\* The names of a set in sort.Strings order.
RECURSIVE SortedNames(_)
SortedNames(S) ==
    IF S = {} THEN <<>>
    ELSE LET m == CHOOSE n \in S : \A o \in S \ {n} : StrLess(n, o)
         IN  <<m>> \o SortedNames(S \ {m})

\* name=v1&name=v2... for one parameter.
RECURSIVE EncodeParam(_, _)
EncodeParam(name, vs) ==
    IF vs = <<>> THEN <<>>
    ELSE <<name \o <<Ch.eq>> \o vs[1]>> \o EncodeParam(name, Tail(vs))

RECURSIVE EncodeNames(_, _)
EncodeNames(params, names) ==
    IF names = <<>> THEN <<>>
    ELSE EncodeParam(names[1], params[names[1]]) \o EncodeNames(params, Tail(names))

\* Values.Encode(): "URL encoded" form, sorted by key.
Encode(params) == Join(EncodeNames(params, SortedNames(DOMAIN params)), <<Ch.amp>>)

\* delete(params, name)
Delete(params, name) == [n \in (DOMAIN params) \ {name} |-> params[n]]

\* sortURLParams with the values left in the order of the request.
sortURLParamsUnsorted(URL) == [URL EXCEPT !.RawQuery = Encode(Query(URL.RawQuery))]

\* sortURLParams: every parameter's values sorted, then the query re-encoded.
sortURLParams(URL) ==
    LET params == Query(URL.RawQuery)
        sorted == [n \in DOMAIN params |-> SortStrings(params[n])]
    IN  [URL EXCEPT !.RawQuery = Encode(sorted)]

\* URL.String() of a request URL (a path and a query; no scheme, host or fragment).
URLString(URL) ==
    URL.Path \o (IF URL.RawQuery # <<>> THEN <<Ch.qm>> \o URL.RawQuery ELSE <<>>)

(***************************************************************************)
(* hash/fnv: FNV-1a, 64 bits.                                              *)
(***************************************************************************)
\* The offset basis 0xcbf29ce484222325, least significant limb first.
FNVOffset64 == <<8997, 33826, 40164, 52210>>
\* The prime is 2^40 + FNVPrimeLow (0x100000001b3).
FNVPrimeLow == 435

\* a XOR b on n bits.
RECURSIVE XorBits(_, _, _)
XorBits(a, b, n) ==
    IF n = 0 THEN 0
    ELSE (((a % 2) + (b % 2)) % 2) + 2 * XorBits(a \div 2, b \div 2, n - 1)

\* XOR on four bits, tabulated, and on a byte.
XorNibble == [a \in 0..15 |-> [b \in 0..15 |-> XorBits(a, b, 4)]]
XorByte(a, b) ==
    (XorNibble[a \div 16][b \div 16] * 16) + XorNibble[a % 16][b % 16]

\* h * (2^40 + FNVPrimeLow) mod 2^64: limb by limb with the carry, the bits of
\* h * 2^40 added to the two upper limbs.
MulPrime(h) ==
    LET t1 == h[1] * FNVPrimeLow
        t2 == (h[2] * FNVPrimeLow) + (t1 \div 65536)
        t3 == (h[3] * FNVPrimeLow) + ((h[1] % 256) * 256) + (t2 \div 65536)
        t4 == (h[4] * FNVPrimeLow) + (h[1] \div 256) + ((h[2] % 256) * 256)
              + (t3 \div 65536)
    IN  <<t1 % 65536, t2 % 65536, t3 % 65536, t4 % 65536>>

\* hash.Write(bytes) on a running FNV-1a state h: for each byte, XOR it into
\* the low byte, then multiply by the prime.
RECURSIVE FNVWrite(_, _)
FNVWrite(h, bytes) ==
    IF bytes = <<>> THEN h
    ELSE FNVWrite(MulPrime([h EXCEPT ![1] = ((@ \div 256) * 256)
                                            + XorByte(@ % 256, bytes[1])]),
                  Tail(bytes))

(***************************************************************************)
(* The client (Client, lines 63-71).  generateKey is DefaultGenerateKey.   *)
(***************************************************************************)
\* The request headers the vary lists name, and the headers of the response.
HdrL == <<Ch.L>>
HdrM == <<Ch.M>>
HdrT == <<Ch.T>>
\* "Expires" and "Vary"
HdrExpires == <<69, 120, 112, 105, 114, 101, 115>>
HdrVary == <<86, 97, 114, 121>>

\* http.Header with no entry.
NoHeader == [n \in {} |-> <<>>]

\* Header.Values(name): nil when the header is absent.
HeaderValues(header, name) == IF name \in DOMAIN header THEN header[name] ELSE <<>>

\* Header.Set(name, value)
HeaderSet(header, name, values) ==
    [n \in (DOMAIN header) \cup {name} |-> IF n = name THEN values ELSE header[n]]

\* cacheableMethod with every method cached.
cacheableMethodAny(c, method) == TRUE

cacheableMethod(c, method) == \E j \in 1..Len(c.methods) : c.methods[j] = method

\* DefaultGenerateKey: the URL, and the body of a POST request that has one;
\* nil when the body cannot be read.
DefaultGenerateKey(r) ==
    IF r.Method = "POST" /\ r.Body.present
    THEN IF r.Body.err THEN <<>> ELSE URLString(r.URL) \o r.Body.data
    ELSE URLString(r.URL)

\* The loop of Client.hash over the vary headers, on the running hash h.
RECURSIVE HashVary(_, _, _)
HashVary(h, vary, header) ==
    IF vary = <<>> THEN h
    ELSE LET value == Join(HeaderValues(header, vary[1]), <<>>)
         IN  HashVary(IF value # <<>> THEN FNVWrite(h, value) ELSE h,
                      Tail(vary), header)

\* Client.hash
hash(c, r) == HashVary(FNVWrite(FNVOffset64, DefaultGenerateKey(r)), c.vary, r.Header)

(***************************************************************************)
(* The entry and its encoding.  The stored bytes are a gob stream of the   *)
(* five fields of an entry; `good` is the number of fields, in the order   *)
(* of the struct, that precede the first damage in the stream (all five in *)
(* a stream Response.Bytes wrote, none in empty bytes or in bytes that are *)
(* no gob stream).                                                         *)
(***************************************************************************)
ZeroResponse ==
    [Value |-> <<>>, Header |-> NoHeader, Expiration |-> 0, LastAccess |-> 0,
     Frequency |-> 0]

NilBytes == [fmt |-> "empty", r |-> ZeroResponse, good |-> 0]
JunkBytes == [fmt |-> "junk", r |-> ZeroResponse, good |-> 0]

\* Response.Bytes
Bytes(r) == [fmt |-> "gob", r |-> r, good |-> 5]

\* The bytes Response.Bytes wrote, damaged after the first n fields.
DamagedBytes(r, n) == [fmt |-> "damaged", r |-> r, good |-> n]

\* dec.Decode(&r) on a damaged stream: gob decodes a struct field by field into
\* the destination and stops at the first error; the fields before it are set.
Decoded(r, n) ==
    [Value |-> IF n >= 1 THEN r.Value ELSE ZeroResponse.Value,
     Header |-> IF n >= 2 THEN r.Header ELSE ZeroResponse.Header,
     Expiration |-> IF n >= 3 THEN r.Expiration ELSE ZeroResponse.Expiration,
     LastAccess |-> IF n >= 4 THEN r.LastAccess ELSE ZeroResponse.LastAccess,
     Frequency |-> IF n >= 5 THEN r.Frequency ELSE ZeroResponse.Frequency]

\* BytesToResponse: the decoding error is dropped and r returned as Decode left it.
BytesToResponse(b) == Decoded(b.r, b.good)

(***************************************************************************)
(* The adapter (interface Adapter, lines 77-87): a map from keys to the    *)
(* bytes and the expiration last set.                                      *)
(***************************************************************************)
AdapterGet(store, key) ==
    IF key \in DOMAIN store THEN [b |-> store[key].b, ok |-> TRUE]
    ELSE [b |-> NilBytes, ok |-> FALSE]

AdapterSet(store, key, b, expiration) ==
    [k \in (DOMAIN store) \cup {key} |->
        IF k = key THEN [b |-> b, expiration |-> expiration] ELSE store[k]]

AdapterRelease(store, key) == [k \in (DOMAIN store) \ {key} |-> store[k]]

\* The calls the middleware makes on the adapter, as the adapter sees them.
CallGet(key) == [op |-> "Get", key |-> key, b |-> NilBytes, expiration |-> 0]
CallSet(key, b, expiration) == [op |-> "Set", key |-> key, b |-> b, expiration |-> expiration]
CallRelease(key) == [op |-> "Release", key |-> key, b |-> NilBytes, expiration |-> 0]

(***************************************************************************)
(* The response writers.  A handler run is the sequence of the calls the   *)
(* wrapped handler makes on the writer it is given.                        *)
(***************************************************************************)
EvHeader(name, values) == [op |-> "Header", name |-> name, values |-> values, code |-> 0, b |-> <<>>]
EvWriteHeader(code) == [op |-> "WriteHeader", name |-> <<>>, values |-> <<>>, code |-> code, b |-> <<>>]
EvWrite(b) == [op |-> "Write", name |-> <<>>, values |-> <<>>, code |-> 0, b |-> b]

\* The http.ResponseWriter of the server: its header map and the calls it received.
NewWriter == [Header |-> NoHeader, calls |-> <<>>]

\* One call of the handler on the server's writer.
WriterCall(w, ev) ==
    IF ev.op = "Header" THEN [w EXCEPT !.Header = HeaderSet(@, ev.name, ev.values)]
    ELSE [w EXCEPT !.calls = Append(@, ev)]

\* &responseWriter{ResponseWriter: w}
NewResponseWriter(w) == [ResponseWriter |-> w, statusCode |-> 0, body |-> <<>>]

\* responseWriter.WriteHeader
rwWriteHeader(rw, ev) ==
    [rw EXCEPT !.statusCode = ev.code, !.ResponseWriter = WriterCall(@, ev)]

\* responseWriter.Write that captures and does not delegate.
rwWriteCaptureOnly(rw, ev) == [rw EXCEPT !.body = ev.b]

\* responseWriter.Write
rwWrite(rw, ev) ==
    [rw EXCEPT !.body = ev.b, !.ResponseWriter = WriterCall(@, ev)]

\* One call of the handler on the capturing writer; Header() is the embedded writer's.
rwCall(rw, ev) ==
    IF ev.op = "WriteHeader" THEN rwWriteHeader(rw, ev)
    ELSE IF ev.op = "Write" THEN rwWrite(rw, ev)
    ELSE [rw EXCEPT !.ResponseWriter = WriterCall(@, ev)]

\* next.ServeHTTP(rw, r)
RECURSIVE ServeCaptured(_, _)
ServeCaptured(rw, run) ==
    IF run = <<>> THEN rw ELSE ServeCaptured(rwCall(rw, run[1]), Tail(run))

\* next.ServeHTTP(w, r)
RECURSIVE ServeDirect(_, _)
ServeDirect(w, run) ==
    IF run = <<>> THEN w ELSE ServeDirect(WriterCall(w, run[1]), Tail(run))

(***************************************************************************)
(* Client.Middleware (lines 92-156), one request from its arrival to its   *)
(* return.  t is the clock when the request arrives; the reads of lines    *)
(* 115 and 116 fall in that tick, and the read of line 143 comes after the *)
(* ticks the handler took.                                                 *)
(***************************************************************************)
\* HasRefresh with the refresh parameter never recognised.
HasRefreshNever(c, params) == FALSE

\* Line 104: _, ok := params[c.refreshKey]
HasRefresh(c, params) == c.refreshKey \in DOMAIN params

\* RefreshURL with the refresh parameter left in the query.
RefreshURLKept(c, URL) == URL

\* Lines 105-107: the refresh parameter deleted and the query re-encoded.
RefreshURL(c, URL) ==
    [URL EXCEPT !.RawQuery = Encode(Delete(Query(URL.RawQuery), c.refreshKey))]

\* Fresh with an entry served at the very tick it expires.
FreshAtExpiration(response, t) == response.Expiration >= t

\* Line 115: response.Expiration.After(time.Now())
Fresh(response, t) == response.Expiration > t

\* Touch with the hit counted twice.
TouchTwice(response, t) ==
    [response EXCEPT !.LastAccess = t, !.Frequency = @ + 2]

\* Touch that counts down.
TouchCountDown(response, t) ==
    [response EXCEPT !.LastAccess = t, !.Frequency = @ - 1]

\* Touch that does not count.
TouchNoCount(response, t) ==
    [response EXCEPT !.LastAccess = t]

\* Touch that pushes the expiration one tick further.
TouchExtend(response, t) ==
    [response EXCEPT !.LastAccess = t, !.Frequency = @ + 1, !.Expiration = @ + 1]

\* Lines 116-117: the bookkeeping of a hit.
Touch(response, t) ==
    [response EXCEPT !.LastAccess = t, !.Frequency = @ + 1]

\* Line 125: Expiration.UTC().Format(http.TimeFormat); one symbol for each tick.
FormatHTTPTime(t) == <<t>>

\* Lines 121-123: every cached header set to its values joined with commas.
RECURSIVE SetJoined(_, _, _)
SetJoined(header, cached, names) ==
    IF names = <<>> THEN header
    ELSE SetJoined(HeaderSet(header, names[1], <<Join(cached[names[1]], <<Ch.comma>>)>>),
                   cached, Tail(names))

\* Lines 121-130: the cached response written to the client.
WriteCached(c, w, response) ==
    LET vary == Join(c.vary, <<Ch.comma>>)
        h1 == SetJoined(w.Header, response.Header, SortedNames(DOMAIN response.Header))
        h2 == IF c.writeExpiresHeader
              THEN HeaderSet(h1, HdrExpires, <<FormatHTTPTime(response.Expiration)>>)
              ELSE h1
        h3 == IF vary # <<>> THEN HeaderSet(h2, HdrVary, <<vary>>) ELSE h2
    IN  [Header |-> h3, calls |-> Append(w.calls, EvWrite(response.Value))]

\* Storable with status 400 stored too.
StorableUpTo400(statusCode) == statusCode <= 400

\* Line 145: statusCode < 400
Storable(statusCode) == statusCode < 400

\* Lines 146-152: the entry made of the captured response.
NewEntry(c, rw, t) ==
    [Value |-> rw.body, Header |-> rw.ResponseWriter.Header, Expiration |-> t + c.ttl,
     LastAccess |-> t, Frequency |-> 1]

\* What is recorded of a request: the request as it arrived, how it ended, the
\* URL and the writer the handler was given, the keys, the calls on the adapter,
\* what Get returned, what the client's writer received, what was captured, and
\* the number of adapter calls made when the handler was invoked.
NoObs ==
    [outcome |-> "none", req |-> [Method |-> "", URL |-> [Path |-> <<>>, RawQuery |-> <<>>],
                                   Header |-> NoHeader,
                                   Body |-> [present |-> FALSE, data |-> <<>>, err |-> FALSE]],
     refresh |-> FALSE, URL |-> [Path |-> <<>>, RawQuery |-> <<>>],
     key0 |-> FNVOffset64, key |-> FNVOffset64, calls |-> <<>>,
     got |-> [b |-> NilBytes, ok |-> FALSE], handlerCalls |-> 0, writer |-> "none",
     run |-> [calls |-> <<>>, ticks |-> 0], w |-> NewWriter, statusCode |-> 0, body |-> <<>>,
     tCheck |-> 0, tNow |-> 0, before |-> NoHeader, handlerAt |-> 0]

\* Lines 95-98: the method is not cacheable.
Bypass(store, r, run, t) ==
    [adapter |-> store,
     obs |-> [NoObs EXCEPT !.outcome = "bypass", !.req = r, !.URL = r.URL,
                           !.handlerCalls = 1, !.writer = "w", !.run = run,
                           !.w = ServeDirect(NewWriter, run.calls),
                           !.tNow = t + run.ticks, !.before = store]]

\* Lines 138-154: the handler invoked on the capturing writer, and the store.
Forward(c, store, obs, r, key, run, t) ==
    LET rw == ServeCaptured(NewResponseWriter(NewWriter), run.calls)
        response == NewEntry(c, rw, t + run.ticks)
        stored == Storable(rw.statusCode)
    IN  [adapter |-> IF stored
                     THEN AdapterSet(store, key, Bytes(response), response.Expiration)
                     ELSE store,
         obs |-> [obs EXCEPT !.outcome = "forward", !.URL = r.URL, !.key = key,
                             !.handlerCalls = 1, !.handlerAt = Len(obs.calls),
                             !.writer = "rw", !.run = run,
                             !.w = rw.ResponseWriter, !.statusCode = rw.statusCode,
                             !.body = rw.body, !.tNow = t + run.ticks,
                             !.calls = IF stored
                                       THEN Append(@, CallSet(key, Bytes(response),
                                                              response.Expiration))
                                       ELSE @]]

\* Lines 104-110: the refresh path.
Refresh(c, store, obs, r, run, t) ==
    LET r2 == [r EXCEPT !.URL = RefreshURL(c, r.URL)]
        key == hash(c, r2)
    IN  Forward(c, AdapterRelease(store, key),
                [obs EXCEPT !.refresh = TRUE, !.calls = Append(@, CallRelease(key))],
                r2, key, run, t)

\* Lookup that forwards on a stale entry without releasing it.
LookupKeepStale(c, store, obs, r, key, run, t) ==
    LET got == AdapterGet(store, key)
        response == BytesToResponse(got.b)
        asked == [obs EXCEPT !.got = got, !.tCheck = t, !.calls = Append(@, CallGet(key))]
        touched == Touch(response, t)
    IN  IF got.ok /\ Fresh(response, t)
        THEN [adapter |-> AdapterSet(store, key, Bytes(touched), touched.Expiration),
              obs |-> [asked EXCEPT !.outcome = "hit", !.URL = r.URL, !.key = key,
                                    !.tNow = t,
                                    !.w = WriteCached(c, NewWriter, touched),
                                    !.calls = Append(@, CallSet(key, Bytes(touched),
                                                                touched.Expiration))]]
        ELSE Forward(c, store, asked, r, key, run, t)

\* Lines 112-135: the lookup, and the hit.
Lookup(c, store, obs, r, key, run, t) ==
    LET got == AdapterGet(store, key)
        response == BytesToResponse(got.b)
        asked == [obs EXCEPT !.got = got, !.tCheck = t, !.calls = Append(@, CallGet(key))]
        touched == Touch(response, t)
    IN  IF got.ok /\ Fresh(response, t)
        THEN [adapter |-> AdapterSet(store, key, Bytes(touched), touched.Expiration),
              obs |-> [asked EXCEPT !.outcome = "hit", !.URL = r.URL, !.key = key,
                                    !.tNow = t,
                                    !.w = WriteCached(c, NewWriter, touched),
                                    !.calls = Append(@, CallSet(key, Bytes(touched),
                                                                touched.Expiration))]]
        ELSE IF got.ok
        THEN Forward(c, AdapterRelease(store, key),
                     [asked EXCEPT !.calls = Append(@, CallRelease(key))],
                     r, key, run, t)
        ELSE Forward(c, store, asked, r, key, run, t)

\* The handler function Middleware returns.
Middleware(c, store, r, run, t) ==
    IF ~cacheableMethod(c, r.Method) THEN Bypass(store, r, run, t)
    ELSE LET r1 == [r EXCEPT !.URL = sortURLParams(r.URL)]
             key == hash(c, r1)
             obs == [NoObs EXCEPT !.req = r, !.key0 = key, !.before = store]
         IN  IF HasRefresh(c, Query(r1.URL.RawQuery))
             THEN Refresh(c, store, obs, r1, run, t)
             ELSE Lookup(c, store, obs, r1, key, run, t)

(***************************************************************************)
(* The inputs: the clients, the requests and the handler runs.             *)
(***************************************************************************)
\* A client with a refresh parameter "r", and one without that caches POST
\* and varies on two headers.
ClientA ==
    [methods |-> <<"GET">>, ttl |-> 1, refreshKey |-> <<Ch.r>>, vary |-> <<>>,
     writeExpiresHeader |-> FALSE]
ClientB ==
    [methods |-> <<"GET", "POST">>, ttl |-> 2, refreshKey |-> <<>>,
     vary |-> <<HdrL, HdrM>>, writeExpiresHeader |-> TRUE]
Clients == {ClientA, ClientB}

NoBody == [present |-> FALSE, data |-> <<>>, err |-> FALSE]
PathA == <<Ch.slash, Ch.a>>

Req(method, raw, header, body) ==
    [Method |-> method, URL |-> [Path |-> PathA, RawQuery |-> raw],
     Header |-> header, Body |-> body]

\* x=2&x=1, x=1&x=2, r=1, r=1&x=2&x=1, =1
QueryX21 == <<Ch.x, Ch.eq, Ch.two, Ch.amp, Ch.x, Ch.eq, Ch.one>>
QueryX12 == <<Ch.x, Ch.eq, Ch.one, Ch.amp, Ch.x, Ch.eq, Ch.two>>
QueryR == <<Ch.r, Ch.eq, Ch.one>>
QueryRX21 == QueryR \o <<Ch.amp>> \o QueryX21
QueryEmptyName == <<Ch.eq, Ch.one>>

\* Accept-Language-like headers: L: ab, c / L: a, bc / L: ab with M: c / L: e
HeaderAbC == [n \in {HdrL} |-> <<<<Ch.a, Ch.b>>, <<Ch.c>>>>]
HeaderABc == [n \in {HdrL} |-> <<<<Ch.a>>, <<Ch.b, Ch.c>>>>]
HeaderAbMc == [n \in {HdrL, HdrM} |-> IF n = HdrL THEN <<<<Ch.a, Ch.b>>>> ELSE <<<<Ch.c>>>>]
HeaderE == [n \in {HdrL} |-> <<<<Ch.e>>>>]

\* The requests that exercise each client's configuration.
RequestsA ==
    {Req("GET", q, NoHeader, NoBody) : q \in {QueryX21, QueryX12, QueryRX21}}
    \cup {Req("PUT", QueryX21, NoHeader, NoBody)}
RequestsB ==
    {Req("GET", q, NoHeader, NoBody) : q \in {<<>>, QueryEmptyName}}
    \cup {Req("GET", <<>>, hd, NoBody) : hd \in {HeaderAbC, HeaderABc, HeaderAbMc, HeaderE}}
    \cup {Req("POST", <<>>, NoHeader, [present |-> TRUE, data |-> <<>>, err |-> FALSE])}

\* A client that caches GET and POST and varies on nothing, for the requests
\* whose body cannot be read: POST /a and POST /b with a failing body, POST /a
\* with the body "b", and GET /a.
ClientC ==
    [methods |-> <<"GET", "POST">>, ttl |-> 2, refreshKey |-> <<>>, vary |-> <<>>,
     writeExpiresHeader |-> FALSE]
PathB == <<Ch.slash, Ch.b>>
FailingBody == [present |-> TRUE, data |-> <<>>, err |-> TRUE]
RequestsC ==
    {[Req("POST", <<>>, NoHeader, FailingBody) EXCEPT !.URL.Path = path] :
        path \in {PathA, PathB}}
    \cup {Req("POST", <<>>, NoHeader, [present |-> TRUE, data |-> <<Ch.b>>, err |-> FALSE])}
    \cup {Req("GET", <<>>, NoHeader, NoBody)}

RequestsOf(c) ==
    IF c = ClientA THEN RequestsA ELSE IF c = ClientB THEN RequestsB ELSE RequestsC

\* A client with a refresh parameter "r" and a ttl of two ticks, for the
\* requests served concurrently: GET /a and GET /a?r=1, which have one key.
ClientD ==
    [methods |-> <<"GET">>, ttl |-> 2, refreshKey |-> <<Ch.r>>, vary |-> <<>>,
     writeExpiresHeader |-> FALSE]
RequestsD == {Req("GET", q, NoHeader, NoBody) : q \in {<<>>, QueryR}}

\* The n-th invocation of a handler whose response changes with every
\* invocation: it writes the byte 'h' + n.
RunN(n) == [calls |-> <<EvWrite(<<Ch.h + n>>)>>, ticks |-> 0]

\* The invocation that wrote a payload; 0 for the empty payload.
PayloadOf(value) == IF value = <<>> THEN 0 ELSE value[1] - Ch.h

\* The handler writes "h" with no status; sets a header, sends 399 and writes
\* "h" then "i", taking one tick; sends 400 and writes "e".
RunPlain == [calls |-> <<EvWrite(<<Ch.h>>)>>, ticks |-> 0]
RunTwoWrites ==
    [calls |-> <<EvHeader(HdrT, <<<<Ch.a>>, <<Ch.b>>>>), EvWriteHeader(399),
                 EvWrite(<<Ch.h>>), EvWrite(<<Ch.i>>)>>,
     ticks |-> 1]
RunError == [calls |-> <<EvWriteHeader(400), EvWrite(<<Ch.e>>)>>, ticks |-> 0]
Runs == {RunPlain, RunTwoWrites, RunError}

(***************************************************************************)
(* NewClient and the options (lines 225-317).  An option is the value of a *)
(* ClientWith... call; a nil adapter, a nil function and a nil slice are   *)
(* values of their own.                                                    *)
(***************************************************************************)
MaxOpts == 3

\* &Client{}
ZeroClient ==
    [adapter |-> "nil", ttl |-> 0, refreshKey |-> <<>>, methods |-> <<>>,
     methodsNil |-> TRUE, generateKey |-> "nil", vary |-> <<>>,
     writeExpiresHeader |-> FALSE]

NoOpt == [opt |-> "", a |-> "nil", ttl |-> 0, s |-> <<>>, list |-> <<>>, fn |-> "nil"]
OptAdapter(a) == [NoOpt EXCEPT !.opt = "ClientWithAdapter", !.a = a]
OptTTL(ttl) == [NoOpt EXCEPT !.opt = "ClientWithTTL", !.ttl = ttl]
OptRefreshKey(s) == [NoOpt EXCEPT !.opt = "ClientWithRefreshKey", !.s = s]
OptMethods(methods) == [NoOpt EXCEPT !.opt = "ClientWithMethods", !.list = methods]
OptGenerateKey(fn) == [NoOpt EXCEPT !.opt = "ClientWithGenerateKey", !.fn = fn]
OptVary(headers) == [NoOpt EXCEPT !.opt = "ClientWithVary", !.list = headers]
OptExpiresHeader == [NoOpt EXCEPT !.opt = "ClientWithExpiresHeader"]

\* What an option returns: the client as it left it, and the error ("" is nil).
ClientWithAdapter(c, a) == [c |-> [c EXCEPT !.adapter = a], err |-> ""]

ClientWithTTL(c, ttl) ==
    IF ttl < 1 THEN [c |-> c, err |-> "cache client ttl is invalid"]
    ELSE [c |-> [c EXCEPT !.ttl = ttl], err |-> ""]

ClientWithRefreshKey(c, refreshKey) == [c |-> [c EXCEPT !.refreshKey = refreshKey], err |-> ""]

\* ClientWithMethods with no method rejected.
ClientWithMethodsUnchecked(c, methods) ==
    [c |-> [c EXCEPT !.methods = methods, !.methodsNil = FALSE], err |-> ""]

ClientWithMethods(c, methods) ==
    IF \E j \in 1..Len(methods) : methods[j] # "GET" /\ methods[j] # "POST"
    THEN [c |-> c, err |-> "invalid method"]
    ELSE [c |-> [c EXCEPT !.methods = methods, !.methodsNil = FALSE], err |-> ""]

ClientWithGenerateKey(c, fn) == [c |-> [c EXCEPT !.generateKey = fn], err |-> ""]

ClientWithVary(c, headers) == [c |-> [c EXCEPT !.vary = headers], err |-> ""]

ClientWithExpiresHeader(c) == [c |-> [c EXCEPT !.writeExpiresHeader = TRUE], err |-> ""]

\* opt(c)
ApplyOption(c, o) ==
    IF o.opt = "ClientWithAdapter" THEN ClientWithAdapter(c, o.a)
    ELSE IF o.opt = "ClientWithTTL" THEN ClientWithTTL(c, o.ttl)
    ELSE IF o.opt = "ClientWithRefreshKey" THEN ClientWithRefreshKey(c, o.s)
    ELSE IF o.opt = "ClientWithMethods" THEN ClientWithMethods(c, o.list)
    ELSE IF o.opt = "ClientWithGenerateKey" THEN ClientWithGenerateKey(c, o.fn)
    ELSE IF o.opt = "ClientWithVary" THEN ClientWithVary(c, o.list)
    ELSE ClientWithExpiresHeader(c)

\* Lines 228-232: the options applied in order, up to the first error.
RECURSIVE ApplyOptions(_, _)
ApplyOptions(c, opts) ==
    IF opts = <<>> THEN [c |-> c, err |-> ""]
    ELSE LET applied == ApplyOption(c, opts[1])
         IN  IF applied.err # "" THEN applied ELSE ApplyOptions(applied.c, Tail(opts))

\* The nil *Client returned with an error.
NilClient == [ZeroClient EXCEPT !.adapter = "no client"]

\* NewClient(opts...)
NewClient(opts) ==
    LET applied == ApplyOptions(ZeroClient, opts)
        c == applied.c
    IN  IF applied.err # "" THEN [c |-> NilClient, err |-> applied.err]
        ELSE IF c.adapter = "nil"
        THEN [c |-> NilClient, err |-> "cache client adapter is not set"]
        ELSE IF c.ttl < 1
        THEN [c |-> NilClient, err |-> "cache client ttl is not set"]
        ELSE [c |-> [c EXCEPT !.methods = IF c.methodsNil THEN <<"GET">> ELSE @,
                              !.methodsNil = FALSE,
                              !.generateKey = IF @ = "nil" THEN "DefaultGenerateKey" ELSE @],
              err |-> ""]

\* The options a caller passes: an adapter or nil; a ttl of -1, 0, 1 or 2
\* nanoseconds; method lists with and without a method that is neither GET nor
\* POST; a key function; a refresh key; vary headers; the Expires flag.
Options ==
    {OptAdapter(a) : a \in {"nil", "memory"}}
    \cup {OptTTL(ttl) : ttl \in -1..2}
    \cup {OptMethods(m) : m \in {<<"GET", "POST">>, <<"POST">>, <<"PUT">>, <<"GET", "PUT">>}}
    \cup {OptGenerateKey("custom"), OptRefreshKey(<<Ch.r>>), OptVary(<<HdrL>>),
          OptExpiresHeader}

\* The option lists of at most MaxOpts options, each kind of option at most once.
OptionLists ==
    UNION {{opts \in [1..n -> Options] :
               \A i, j \in 1..n : i # j => opts[i].opt # opts[j].opt} : n \in 0..MaxOpts}

NotBuilt == [opts |-> <<>>, done |-> FALSE, c |-> NilClient, err |-> ""]

(***************************************************************************)
(* Requests served concurrently: each goroutine's position in Middleware   *)
(* and what it holds, and the history of the handler's invocations.        *)
(***************************************************************************)
MaxStarts == 4
Procs == {"p", "q"}

\* The last refresh completed: the invocations that wrote the payload it
\* released (0 when the key was absent) and the payload it stored.
NoRefresh == [old |-> 0, new |-> 0]

\* A goroutine between two requests.
NoProc == [pc |-> "idle", obs |-> NoObs, saw |-> NoRefresh, old |-> 0]

\* started: the requests that arrived; inv: the handler's invocations;
\* storedAt[n]: the time read at line 143 for invocation n.
NoHist == [started |-> 0, inv |-> 0, storedAt |-> <<>>, refreshed |-> NoRefresh]

(***************************************************************************)
(* The state: the client, the adapter's map, the clock, the number of      *)
(* requests served, what was recorded of the last two requests, the         *)
(* construction of a client from a list of options, and the goroutines     *)
(* serving requests at once with the history of their handler invocations. *)
(***************************************************************************)
VARIABLES client, adapter, now, nreq, prev, last, built, procs, hist

vars == <<client, adapter, now, nreq, prev, last, built, procs, hist>>

NoProcs == [p \in Procs |-> NoProc]

EmptyAdapter == [k \in {} |-> [b |-> NilBytes, expiration |-> 0]]

Init ==
    /\ client \in Clients
    /\ adapter = EmptyAdapter
    /\ now = 1
    /\ nreq = 0
    /\ prev = NoObs
    /\ last = NoObs
    /\ built = NotBuilt
    /\ procs = NoProcs
    /\ hist = NoHist

\* A request served from its arrival to its return; the clock advances by the
\* ticks the handler took.
ServeHTTP(r, run) ==
    /\ nreq < MaxRequests
    /\ LET m == Middleware(client, adapter, r, run, now)
       IN  /\ m.obs.tNow <= MaxTime
           /\ adapter' = m.adapter
           /\ last' = m.obs
           /\ now' = m.obs.tNow
    /\ prev' = last
    /\ nreq' = nreq + 1
    /\ UNCHANGED <<client, built, procs, hist>>

\* The clock advances between two requests.
Tick ==
    /\ nreq < MaxRequests
    /\ now < MaxTime
    /\ now' = now + 1
    /\ UNCHANGED <<client, adapter, nreq, prev, last, built, procs, hist>>

Next ==
    \/ \E r \in RequestsOf(client), run \in Runs : ServeHTTP(r, run)
    \/ Tick

Spec == Init /\ [][Next]_vars

(***************************************************************************)
(* The faults of the environment: a request body that cannot be read, and  *)
(* stored bytes that come back from the adapter damaged.                   *)
(***************************************************************************)
InitFaults ==
    /\ client = ClientC
    /\ adapter = EmptyAdapter
    /\ now = 1
    /\ nreq = 0
    /\ prev = NoObs
    /\ last = NoObs
    /\ built = NotBuilt
    /\ procs = NoProcs
    /\ hist = NoHist

\* The bytes stored under a key become empty, no gob stream, or a gob stream
\* damaged after its first n fields.
Damage(key, b) ==
    /\ nreq < MaxRequests
    /\ key \in DOMAIN adapter
    /\ adapter[key].b.fmt = "gob"
    /\ adapter' = [adapter EXCEPT ![key].b = b]
    /\ UNCHANGED <<client, now, nreq, prev, last, built, procs, hist>>

NextFaults ==
    \/ Next
    \/ \E key \in DOMAIN adapter :
          \E b \in {NilBytes, JunkBytes}
                  \cup {DamagedBytes(adapter[key].b.r, n) : n \in 0..4} :
             Damage(key, b)

SpecFaults == InitFaults /\ [][NextFaults]_vars

(***************************************************************************)
(* The construction: NewClient called once with a list of options.         *)
(***************************************************************************)
InitNew ==
    /\ client = ClientA
    /\ adapter = EmptyAdapter
    /\ now = 1
    /\ nreq = 0
    /\ prev = NoObs
    /\ last = NoObs
    /\ built \in {[NotBuilt EXCEPT !.opts = opts] : opts \in OptionLists}
    /\ procs = NoProcs
    /\ hist = NoHist

Construct ==
    /\ ~built.done
    /\ LET made == NewClient(built.opts)
       IN  built' = [built EXCEPT !.done = TRUE, !.c = made.c, !.err = made.err]
    /\ UNCHANGED <<client, adapter, now, nreq, prev, last, procs, hist>>

NextNew == Construct

SpecNew == InitNew /\ [][NextNew]_vars

(***************************************************************************)
(* Requests served concurrently.  net/http runs the handler Middleware     *)
(* returns in one goroutine for each request; the goroutines share the     *)
(* adapter and the clock and nothing else.  A step is one call on the      *)
(* adapter or one reading of the clock, with the goroutine's own           *)
(* computation around it.                                                  *)
(***************************************************************************)
InitConc ==
    /\ client = ClientD
    /\ adapter = EmptyAdapter
    /\ now = 1
    /\ nreq = 0
    /\ prev = NoObs
    /\ last = NoObs
    /\ built = NotBuilt
    /\ procs = NoProcs
    /\ hist = NoHist

\* Lines 100-108: the URL normalized and the key derived; with the refresh
\* parameter, the parameter removed and the key derived again.
Derive(c, r) ==
    LET r1 == [r EXCEPT !.URL = sortURLParams(r.URL)]
        key0 == hash(c, r1)
        refresh == HasRefresh(c, Query(r1.URL.RawQuery))
        r2 == [r1 EXCEPT !.URL = RefreshURL(c, r1.URL)]
    IN  [refresh |-> refresh, key0 |-> key0,
         URL |-> IF refresh THEN r2.URL ELSE r1.URL,
         key |-> IF refresh THEN hash(c, r2) ELSE key0]

\* What the client of this specification derives for each of its requests.
DerivedD == [r \in RequestsD |-> Derive(ClientD, r)]

\* Lines 95-108: the request arrives and its key is derived.
Arrive(p, r) ==
    /\ procs[p].pc = "idle"
    /\ hist.started < MaxStarts
    /\ cacheableMethod(client, r.Method)
    /\ LET d == DerivedD[r]
       IN  procs' = [procs EXCEPT ![p] =
               [pc |-> IF d.refresh THEN "release" ELSE "get",
                obs |-> [NoObs EXCEPT !.req = r, !.key0 = d.key0, !.refresh = d.refresh,
                                      !.URL = d.URL, !.key = d.key],
                saw |-> hist.refreshed,
                old |-> 0]]
    /\ hist' = [hist EXCEPT !.started = @ + 1]
    /\ UNCHANGED <<client, adapter, now, nreq, prev, last, built>>

\* Line 109: c.adapter.Release(key) of a refresh.
DoRelease(p) ==
    /\ procs[p].pc = "release"
    /\ LET key == procs[p].obs.key
           got == AdapterGet(adapter, key)
       IN  /\ adapter' = AdapterRelease(adapter, key)
           /\ procs' = [procs EXCEPT
                  ![p].pc = "handler",
                  ![p].old = PayloadOf(BytesToResponse(got.b).Value),
                  ![p].obs.calls = Append(@, CallRelease(key))]
    /\ UNCHANGED <<client, now, nreq, prev, last, built, hist>>

\* Line 112: b, ok := c.adapter.Get(key)
DoGet(p) ==
    /\ procs[p].pc = "get"
    /\ LET key == procs[p].obs.key
       IN  procs' = [procs EXCEPT
               ![p].pc = "test",
               ![p].obs.got = AdapterGet(adapter, key),
               ![p].obs.calls = Append(@, CallGet(key))]
    /\ UNCHANGED <<client, adapter, now, nreq, prev, last, built, hist>>

\* Lines 113-135: the entry decoded and tested against the clock; fresh, it is
\* touched, set and written to the client; found and stale, it is released.
DoTest(p) ==
    /\ procs[p].pc = "test"
    /\ LET key == procs[p].obs.key
           got == procs[p].obs.got
           response == BytesToResponse(got.b)
           touched == Touch(response, now)
       IN  IF got.ok /\ Fresh(response, now)
           THEN /\ adapter' = AdapterSet(adapter, key, Bytes(touched), touched.Expiration)
                /\ procs' = [procs EXCEPT
                       ![p].pc = "idle",
                       ![p].obs = [@ EXCEPT
                           !.outcome = "hit", !.tCheck = now, !.tNow = now,
                           !.w = WriteCached(client, NewWriter, touched),
                           !.calls = Append(@, CallSet(key, Bytes(touched),
                                                       touched.Expiration))]]
           ELSE IF got.ok
           THEN /\ adapter' = AdapterRelease(adapter, key)
                /\ procs' = [procs EXCEPT
                       ![p].pc = "handler",
                       ![p].obs.tCheck = now,
                       ![p].obs.calls = Append(@, CallRelease(key))]
           ELSE /\ adapter' = adapter
                /\ procs' = [procs EXCEPT ![p].pc = "handler"]
    /\ UNCHANGED <<client, now, nreq, prev, last, built, hist>>

\* Lines 138-154: the handler invoked on the capturing writer, the clock read
\* when it has returned, and the entry set.
DoForward(p) ==
    /\ procs[p].pc = "handler"
    /\ LET n == hist.inv + 1
           o == procs[p].obs
           m == Forward(client, adapter, o, [o.req EXCEPT !.URL = o.URL], o.key,
                        RunN(n), now)
       IN  /\ adapter' = m.adapter
           /\ procs' = [procs EXCEPT ![p].pc = "idle", ![p].obs = m.obs]
           /\ hist' = [hist EXCEPT
                  !.inv = n,
                  !.storedAt = Append(@, now),
                  !.refreshed = IF o.refresh THEN [old |-> procs[p].old, new |-> n]
                                ELSE @]
    /\ UNCHANGED <<client, now, nreq, prev, last, built>>

\* The clock advances while requests are in flight or still to come.
TickConc ==
    /\ now < MaxTime
    /\ hist.started < MaxStarts \/ \E p \in Procs : procs[p].pc # "idle"
    /\ now' = now + 1
    /\ UNCHANGED <<client, adapter, nreq, prev, last, built, procs, hist>>

NextConc ==
    \/ \E p \in Procs, r \in RequestsD : Arrive(p, r)
    \/ \E p \in Procs : DoRelease(p)
    \/ \E p \in Procs : DoGet(p)
    \/ \E p \in Procs : DoTest(p)
    \/ \E p \in Procs : DoForward(p)
    \/ TickConc

SpecConc == InitConc /\ [][NextConc]_vars

(***************************************************************************)
(* Properties.                                                             *)
(***************************************************************************)
\* The calls of a kind among the calls on the adapter.
CallsOf(o, op) == SelectSeq(o.calls, LAMBDA cl : cl.op = op)

\* The method is one of the configured cacheable methods.
Configured(c, method) == method \in {c.methods[j] : j \in 1..Len(c.methods)}

\* A request was served and this is what was recorded of it.
Served(o) == o.outcome # "none"

\* C1. Status-gated storage: a forwarded request causes a Set under its key if
\* and only if the captured status is below 400; the entry set has frequency
\* 1, lastAccess now and expiration now + TTL, the expiration passed to Set;
\* it is what the adapter then holds.  A status of 400 or more causes no Set.
C1_StatusGatedStorage ==
    last.outcome = "forward" =>
        LET sets == CallsOf(last, "Set")
        IN  /\ (last.statusCode < 400) <=> (sets # <<>>)
            /\ last.statusCode >= 400 => sets = <<>>
            /\ sets # <<>> =>
                 LET e == BytesToResponse(sets[1].b)
                 IN  /\ Len(sets) = 1
                     /\ sets[1].key = last.key
                     /\ e.Frequency = 1
                     /\ e.LastAccess = last.tNow
                     /\ e.Expiration = last.tNow + client.ttl
                     /\ sets[1].expiration = e.Expiration
                     /\ last.key \in DOMAIN adapter
                     /\ adapter[last.key].b = sets[1].b

\* A response of status 400 was not stored and the next, of status 399, was.
C1_Witness ==
    /\ prev.outcome = "forward" /\ prev.statusCode = 400 /\ CallsOf(prev, "Set") = <<>>
    /\ last.outcome = "forward" /\ last.statusCode = 399 /\ Len(CallsOf(last, "Set")) = 1

\* C2. Freshness boundary: a request is answered from the cache only if Get
\* returned an entry whose expiration is strictly after the time of the check;
\* an entry whose expiration is the time of the check or earlier is not served
\* and the request is forwarded to the handler.
C2_FreshnessBoundary ==
    LET e == BytesToResponse(last.got.b)
    IN  /\ (Served(last) /\ last.handlerCalls = 0) =>
              /\ last.got.ok
              /\ e.Expiration > last.tCheck
        /\ (CallsOf(last, "Get") # <<>> /\ last.got.ok /\ e.Expiration <= last.tCheck) =>
              /\ last.outcome = "forward"
              /\ last.handlerCalls = 1
              /\ last.writer = "rw"

\* An entry is looked up at the very tick of its expiration, and not served.
C2_Witness ==
    /\ last.got.ok
    /\ BytesToResponse(last.got.b).Expiration = last.tCheck
    /\ last.outcome = "forward"

\* The request carries the configured refresh parameter, to a cacheable method.
CarriesRefresh(c, r) ==
    /\ c.refreshKey # <<>>
    /\ Configured(c, r.Method)
    /\ \E j \in 1..Len(QueryPairs(r.URL.RawQuery)) :
          QueryPairs(r.URL.RawQuery)[j].k = c.refreshKey

\* C3. Refresh always misses and regenerates: a request to a cacheable method
\* that carries the refresh parameter releases the recomputed key, calls no
\* Get, is not served from the cache and invokes the handler once, whatever
\* the adapter held; two such requests in a row are both forwarded.
C3_RefreshRegenerates ==
    \A o \in {prev, last} :
        (Served(o) /\ CarriesRefresh(client, o.req)) =>
            /\ o.calls # <<>>
            /\ o.calls[1] = CallRelease(o.key)
            /\ o.key = hash(client, [o.req EXCEPT !.URL = o.URL])
            /\ CallsOf(o, "Get") = <<>>
            /\ o.outcome = "forward"
            /\ o.handlerCalls = 1

\* Two refresh requests in a row from an empty adapter, the second finding the
\* fresh entry the first stored.
C3_Witness ==
    /\ CarriesRefresh(client, prev.req) /\ prev.before = EmptyAdapter
    /\ prev.statusCode < 400
    /\ CarriesRefresh(client, last.req)
    /\ last.key \in DOMAIN last.before
    /\ BytesToResponse(last.before[last.key].b).Expiration > last.tNow
    /\ last.outcome = "forward"

\* The raw query with the pairs of a name taken out, the others as they were.
RECURSIVE WithoutPairs(_, _)
WithoutPairs(pairs, name) ==
    IF pairs = <<>> THEN <<>>
    ELSE (IF pairs[1].k = name THEN <<>>
          ELSE <<pairs[1].k \o <<Ch.eq>> \o pairs[1].v>>)
         \o WithoutPairs(Tail(pairs), name)

\* The request without its refresh parameter.
Plain(c, r) ==
    [r EXCEPT !.URL.RawQuery =
        Join(WithoutPairs(QueryPairs(r.URL.RawQuery), c.refreshKey), <<Ch.amp>>)]

\* The key the middleware derives for a request that takes the lookup path.
LookupKey(c, r) == hash(c, [r EXCEPT !.URL = sortURLParams(r.URL)])

\* C4. The refresh marker takes no part in the key and does not reach the
\* handler: the key released and stored for a request carrying the refresh
\* parameter is the key derived for the same request without it, so the entry
\* the plain request stored is the one released; the query the handler sees
\* has no refresh parameter.
C4_RefreshMarkerOutOfKey ==
    (Served(last) /\ CarriesRefresh(client, last.req)) =>
        /\ last.key = LookupKey(client, Plain(client, last.req))
        /\ \A j \in 1..Len(last.calls) : last.calls[j].key = last.key
        /\ \A j \in 1..Len(QueryPairs(last.URL.RawQuery)) :
              QueryPairs(last.URL.RawQuery)[j].k # client.refreshKey
        /\ (prev.outcome = "forward" /\ prev.req = Plain(client, last.req)) =>
              last.calls[1] = CallRelease(prev.key)
        /\ last.key \notin DOMAIN adapter \/ BytesToResponse(adapter[last.key].b).Frequency = 1

\* The plain request stored an entry, still fresh, and the refresh request
\* released it and stored a new one.
C4_Witness ==
    /\ CarriesRefresh(client, last.req)
    /\ prev.outcome = "forward" /\ prev.req = Plain(client, last.req)
    /\ prev.key \in DOMAIN last.before
    /\ BytesToResponse(last.before[prev.key].b).Expiration > last.tNow
    /\ CallsOf(last, "Release") = <<CallRelease(prev.key)>>
    /\ Len(CallsOf(last, "Set")) = 1

\* C5. Hit bookkeeping: a fresh hit makes one Set, under the key looked up and
\* with the expiration of the entry read; the entry written differs from the
\* entry read in lastAccess, now, and in frequency, one more, and in nothing else.
C5_HitBookkeeping ==
    last.outcome = "hit" =>
        LET sets == CallsOf(last, "Set")
            gets == CallsOf(last, "Get")
            rd == BytesToResponse(last.got.b)
            wr == BytesToResponse(sets[1].b)
        IN  /\ Len(sets) = 1 /\ Len(gets) = 1
            /\ sets[1].key = gets[1].key
            /\ sets[1].expiration = rd.Expiration
            /\ wr.Value = rd.Value
            /\ wr.Header = rd.Header
            /\ wr.Expiration = rd.Expiration
            /\ wr.LastAccess = last.tNow
            /\ wr.Frequency = rd.Frequency + 1
            /\ adapter[last.key] = [b |-> sets[1].b, expiration |-> rd.Expiration]
            /\ CallsOf(last, "Release") = <<>>

\* A hit on an entry with headers, one tick after its last access.
C5_Witness ==
    /\ last.outcome = "hit"
    /\ BytesToResponse(last.got.b).Header # NoHeader
    /\ BytesToResponse(last.got.b).LastAccess < last.tNow

\* The bytes of the Write calls of a handler run, one after the other.
RECURSIVE Written(_)
Written(calls) ==
    IF calls = <<>> THEN <<>>
    ELSE (IF calls[1].op = "Write" THEN calls[1].b ELSE <<>>) \o Written(Tail(calls))

\* C6. Full body capture: the payload stored for a forwarded request is the
\* concatenation, in order, of all the byte slices the handler passed to Write.
C6_FullBodyCapture ==
    (last.outcome = "forward" /\ CallsOf(last, "Set") # <<>>) =>
        BytesToResponse(CallsOf(last, "Set")[1].b).Value = Written(last.run.calls)

\* C7. Bypass: a request whose method is not configured as cacheable invokes
\* the handler once, with the original writer and the request as it arrived;
\* there is no Get, Set or Release and the adapter is left as it was.
C7_Bypass ==
    (Served(last) /\ ~Configured(client, last.req.Method)) =>
        /\ last.handlerCalls = 1
        /\ last.writer = "w"
        /\ last.URL = last.req.URL
        /\ last.calls = <<>>
        /\ adapter = last.before
        /\ last.w = ServeDirect(NewWriter, last.run.calls)

\* A request of a method not configured, its query values out of order, is
\* bypassed while the adapter holds an entry.
C7_Witness ==
    /\ Served(last) /\ ~Configured(client, last.req.Method)
    /\ last.req.URL.RawQuery = QueryX21
    /\ last.before # EmptyAdapter
    /\ last.outcome = "bypass"

\* How many times v occurs in vs.
RECURSIVE Count(_, _)
Count(vs, v) ==
    IF vs = <<>> THEN 0
    ELSE (IF vs[1] = v THEN 1 ELSE 0) + Count(Tail(vs), v)

\* Two raw queries with the same names in the same order that differ only in
\* the order of the values of a name.
Reordered(q1, q2) ==
    LET p1 == QueryPairs(q1)
        p2 == QueryPairs(q2)
    IN  /\ q1 # q2
        /\ Len(p1) = Len(p2)
        /\ \A j \in 1..Len(p1) :
              /\ p1[j].k = p2[j].k
              /\ Count(ValuesOf(p1, p1[j].k), p1[j].v) = Count(ValuesOf(p2, p1[j].k), p1[j].v)
              /\ Count(ValuesOf(p1, p1[j].k), p2[j].v) = Count(ValuesOf(p2, p1[j].k), p2[j].v)

\* Two requests in a row, alike but for the order of the values of a repeated
\* query parameter, to a cacheable method and without the refresh parameter.
ReorderedPair ==
    /\ Served(prev) /\ Served(last)
    /\ Configured(client, last.req.Method)
    /\ prev.req.Method = last.req.Method
    /\ prev.req.URL.Path = last.req.URL.Path
    /\ prev.req.Header = last.req.Header
    /\ prev.req.Body = last.req.Body
    /\ Reordered(prev.req.URL.RawQuery, last.req.URL.RawQuery)
    /\ \A j \in 1..Len(QueryPairs(last.req.URL.RawQuery)) :
          QueryPairs(last.req.URL.RawQuery)[j].k # client.refreshKey

\* C8. Query-value order insensitivity: two requests that differ only in the
\* order of the values of a repeated query parameter derive the same key; from
\* an empty cache and a handler status below 400, the first misses and stores
\* an entry and the second, before the expiration, hits, returns the stored
\* body and leaves the stored frequency at 2.
C8_QueryValueOrder ==
    ReorderedPair =>
        /\ prev.key = last.key
        /\ (prev.before = EmptyAdapter /\ prev.statusCode < 400
            /\ last.tCheck < prev.tNow + client.ttl) =>
              /\ prev.outcome = "forward"
              /\ Len(CallsOf(prev, "Set")) = 1
              /\ last.outcome = "hit"
              /\ last.handlerCalls = 0
              /\ last.w.calls =
                    <<EvWrite(BytesToResponse(CallsOf(prev, "Set")[1].b).Value)>>
              /\ BytesToResponse(adapter[last.key].b).Frequency = 2

\* x=2&x=1 missed and stored "h"; x=1&x=2 hit and was answered "h".
C8_Witness ==
    /\ ReorderedPair
    /\ prev.before = EmptyAdapter
    /\ prev.req.URL.RawQuery = QueryX21 /\ prev.body = <<Ch.h>>
    /\ last.req.URL.RawQuery = QueryX12
    /\ last.outcome = "hit"
    /\ last.w.calls = <<EvWrite(<<Ch.h>>)>>
    /\ BytesToResponse(adapter[last.key].b).Frequency = 2

\* Two requests that differ in the values of a configured vary header.
DifferInVary(c, r1, r2) ==
    \E j \in 1..Len(c.vary) :
        HeaderValues(r1.Header, c.vary[j]) # HeaderValues(r2.Header, c.vary[j])

\* C9. Vary independence: two requests alike but for the values of a configured
\* vary header, a different split of the same characters included, get
\* different keys, and one is not served the entry stored for the other.
C9_VaryIndependence ==
    (/\ Served(prev) /\ Served(last)
     /\ Configured(client, last.req.Method)
     /\ prev.req.Method = last.req.Method
     /\ prev.req.URL = last.req.URL
     /\ prev.req.Body = last.req.Body
     /\ DifferInVary(client, prev.req, last.req)) =>
        /\ prev.key # last.key
        /\ prev.before = EmptyAdapter => last.outcome # "hit"

\* C10. Refresh disabled when unset: with no refresh parameter configured, no
\* request takes the refresh path, whatever its query; every request to a
\* cacheable method calls Get first and no Release is made for a refresh.
C10_RefreshDisabledWhenUnset ==
    (client.refreshKey = <<>> /\ Served(last) /\ Configured(client, last.req.Method)) =>
        /\ ~last.refresh
        /\ last.calls # <<>>
        /\ last.calls[1].op = "Get"


(***************************************************************************)
(* The faults.                                                             *)
(***************************************************************************)
\* The request is a POST whose body cannot be read.
BodyFails(r) == r.Method = "POST" /\ r.Body.present /\ r.Body.err

\* The bytes the request of `o2` got are the ones the request of `o1` stored.
StoredBy(o1, o2) ==
    /\ o1.outcome = "forward"
    /\ o1.calls # <<>>
    /\ o1.calls[Len(o1.calls)].op = "Set"
    /\ o1.calls[Len(o1.calls)].key = o2.key
    /\ o1.calls[Len(o1.calls)].b = o2.got.b

\* Two requests a cache may answer alike: the method, the normalized URL, the
\* headers and the body are the same.
SameRequest(r1, r2) ==
    /\ r1.Method = r2.Method
    /\ sortURLParams(r1.URL) = sortURLParams(r2.URL)
    /\ r1.Header = r2.Header
    /\ r1.Body = r2.Body

\* C11: a POST whose body cannot be read is not aborted; its key is the hash
\* of the empty input; it is answered by the handler, unchanged, or by an
\* entry that was stored for an equivalent request, never by an entry stored
\* for a different request.
C11_BodyReadFailure ==
    BodyFails(last.req) =>
        /\ last.outcome \in {"hit", "forward"}
        /\ last.key0 = HashVary(FNVOffset64, client.vary, last.req.Header)
        /\ last.outcome = "forward" =>
              /\ last.handlerCalls = 1
              /\ last.w = ServeDirect(NewWriter, last.run.calls)
        /\ (last.outcome = "hit" /\ StoredBy(prev, last)) =>
              SameRequest(prev.req, last.req)

\* C12: when Get finds bytes that are empty or cannot be decoded, the decoded
\* entry is the zero entry, it is stale at every time, the key is released
\* and the request forwarded as for a stale entry; it is never served.
C12_CorruptEqualsMiss ==
    (last.got.ok /\ last.got.b.fmt # "gob") =>
        /\ BytesToResponse(last.got.b) = ZeroResponse
        /\ \A t \in 0..MaxTime : ~Fresh(BytesToResponse(last.got.b), t)
        /\ last.outcome = "forward"
        /\ last.handlerCalls = 1
        /\ Len(last.calls) >= 2 /\ last.calls[2] = CallRelease(last.key)
        /\ last.handlerAt = 2
        /\ last.w = ServeDirect(NewWriter, last.run.calls)


(***************************************************************************)
(* The construction.                                                       *)
(***************************************************************************)
\* The options of one kind in a list, in the order given.
OptsOf(opts, kind) == SelectSeq(opts, LAMBDA o : o.opt = kind)

\* C13: NewClient returns a client and no error exactly when an adapter is
\* supplied, the ttl is at least 1 and every method configured is GET or
\* POST, whatever the order of the options; otherwise it returns an error and
\* no client.  The client returned has the options' values; without a methods
\* option its methods are exactly GET, without a key function the default one.
C13_NewClientAllOrNothing ==
    built.done =>
        LET as == OptsOf(built.opts, "ClientWithAdapter")
            ts == OptsOf(built.opts, "ClientWithTTL")
            ms == OptsOf(built.opts, "ClientWithMethods")
            gs == OptsOf(built.opts, "ClientWithGenerateKey")
            valid == /\ as # <<>> /\ as[1].a # "nil"
                     /\ ts # <<>> /\ ts[1].ttl >= 1
                     /\ ms # <<>> => \A j \in 1..Len(ms[1].list) :
                                         ms[1].list[j] \in {"GET", "POST"}
        IN  /\ (built.err = "") <=> valid
            /\ (built.c = NilClient) <=> ~valid
            /\ valid =>
                 /\ built.c.adapter = as[1].a
                 /\ built.c.ttl = ts[1].ttl
                 /\ built.c.methods = IF ms = <<>> THEN <<"GET">> ELSE ms[1].list
                 /\ built.c.generateKey =
                       IF gs = <<>> THEN "DefaultGenerateKey" ELSE gs[1].fn
                 /\ built.c.writeExpiresHeader =
                       (OptsOf(built.opts, "ClientWithExpiresHeader") # <<>>)

\* A client built from three options, the ttl first, with no methods and no
\* key function configured.
C13_Witness ==
    /\ built.done
    /\ built.err = ""
    /\ Len(built.opts) = 3
    /\ built.opts[1].opt = "ClientWithTTL"
    /\ OptsOf(built.opts, "ClientWithMethods") = <<>>
    /\ built.c.methods = <<"GET">>
    /\ built.c.generateKey = "DefaultGenerateKey"


(***************************************************************************)
(* The forward path, the cleanup and the keys of the two methods.          *)
(***************************************************************************)
\* C15. Forward transparency: on a miss, a refresh or a bypass the server's
\* writer receives every header, WriteHeader and Write of the handler, with
\* the same argument and in the same order, and nothing else: it is left as
\* the handler would have left it had it been given the writer itself.
C15_ForwardTransparency ==
    last.outcome \in {"forward", "bypass"} =>
        /\ last.handlerCalls = 1
        /\ last.w = ServeDirect(NewWriter, last.run.calls)

\* A refresh whose handler set a header, sent a status and wrote twice.
C15_Witness ==
    /\ last.outcome = "forward"
    /\ last.refresh
    /\ last.run = RunTwoWrites
    /\ Len(last.w.calls) = 3
    /\ HdrT \in DOMAIN last.w.Header

\* The request was looked up and not answered from the cache.
LookupMissed(o) == o.outcome = "forward" /\ CallsOf(o, "Get") # <<>>

\* C17 as claimed. Dead-entry cleanup: on every lookup that yields no fresh
\* entry, the entry being stale or absent, Release of the key is the call that
\* follows Get and it is made before the handler is invoked.
C17_ReleaseOnStaleOrAbsent ==
    LookupMissed(last) =>
        /\ Len(last.calls) >= 2
        /\ last.calls[2] = CallRelease(last.key)
        /\ last.handlerAt = 2

\* C17 as amended. On every lookup that finds an entry that is not fresh,
\* Release of the key follows Get and precedes the handler; when the adapter
\* reports the key absent the handler is invoked with no Release made.
C17_ReleaseOnStale ==
    LookupMissed(last) =>
        /\ last.calls[1] = CallGet(last.key)
        /\ last.got.ok =>
              /\ Len(last.calls) >= 2
              /\ last.calls[2] = CallRelease(last.key)
              /\ last.handlerAt = 2
              /\ last.statusCode >= 400 => last.key \notin DOMAIN adapter
        /\ ~last.got.ok =>
              /\ CallsOf(last, "Release") = <<>>
              /\ last.handlerAt = 1

\* A stale entry found, released, and the handler's error not stored: the key
\* is gone.
C17_Witness ==
    /\ LookupMissed(last)
    /\ last.got.ok
    /\ last.calls = <<CallGet(last.key), CallRelease(last.key)>>
    /\ last.handlerAt = 2
    /\ last.key \in DOMAIN last.before
    /\ last.key \notin DOMAIN adapter

\* C20. Method isolation: with GET and POST both cacheable, a GET and a POST
\* of the same URL, headers alike, never derive the same key, the POST body
\* being empty or not.
C20_MethodIsolation ==
    (/\ Configured(client, "GET") /\ Configured(client, "POST")
     /\ Served(prev) /\ Served(last)
     /\ {prev.req.Method, last.req.Method} = {"GET", "POST"}
     /\ prev.req.URL = last.req.URL
     /\ prev.req.Header = last.req.Header)
        => prev.key0 # last.key0


(***************************************************************************)
(* Requests served concurrently.                                           *)
(***************************************************************************)
\* The entry the adapter holds under a key.
Held(store, k) == BytesToResponse(store[k].b)

\* The key holds, before and after the step, the response of one invocation
\* of the handler: the entry was neither released nor replaced.
SameEntry(k) ==
    /\ k \in DOMAIN adapter
    /\ k \in DOMAIN adapter'
    /\ Held(adapter', k).Value = Held(adapter, k).Value

\* The step is the Set of a hit of p on key k, and the bytes p got are no
\* longer the ones stored: another request wrote the key after p's Get.
StaleWrite(p, k) ==
    /\ procs[p].pc = "test"
    /\ procs'[p].pc = "idle"
    /\ procs[p].obs.key = k
    /\ procs[p].obs.got.b # adapter[k].b

\* C14 as claimed. From the creation of an entry until it is released or
\* replaced, the frequency the adapter holds never decreases from one adapter
\* write to the next, in every interleaving of the requests on the key.
C14_FrequencyMonotone ==
    [][\A k \in DOMAIN adapter :
          SameEntry(k) => Held(adapter', k).Frequency >= Held(adapter, k).Frequency]_vars

\* C14 as amended. The frequency never decreases from one adapter write to
\* the next, except by the Set of a hit whose Get was followed by another
\* request's write of the key.
C14_FrequencyMonotoneUnlessStale ==
    [][\A k \in DOMAIN adapter :
          SameEntry(k) =>
              \/ Held(adapter', k).Frequency >= Held(adapter, k).Frequency
              \/ \E p \in Procs : StaleWrite(p, k)]_vars

\* Two hits served one after the other on an entry: the second read what the
\* first wrote, and the frequency is 3.
C14_Witness ==
    \E p, q \in Procs :
        /\ p # q
        /\ procs[p].pc = "idle" /\ procs[p].obs.outcome = "hit"
        /\ procs[q].pc = "idle" /\ procs[q].obs.outcome = "hit"
        /\ procs[q].obs.got.b = procs[p].obs.calls[2].b
        /\ procs[q].obs.key \in DOMAIN adapter
        /\ Held(adapter, procs[q].obs.key).Frequency = 3

\* Three requests arrived, one invocation of the handler stored the entry,
\* and the two goroutines have each completed a hit: two hits on one entry
\* with no other writer.
TwoHitsOnly ==
    /\ hist.started = 3
    /\ hist.inv = 1
    /\ \A p \in Procs : procs[p].pc = "idle" /\ procs[p].obs.outcome = "hit"

\* C16. Lost update: after two hits on a fresh entry with no other writer,
\* in every interleaving, the frequency held is the initial one plus 1 or
\* plus 2, and the payload, the headers and the expiration are those stored.
C16_LostUpdate ==
    TwoHitsOnly =>
        \A p \in Procs :
            LET k == procs[p].obs.key
            IN  /\ k \in DOMAIN adapter
                /\ Held(adapter, k).Frequency \in {1 + 1, 1 + 2}
                /\ Held(adapter, k).Value = RunN(1).calls[1].b
                /\ Held(adapter, k).Header = NoHeader
                /\ Held(adapter, k).Expiration = hist.storedAt[1] + client.ttl
                /\ adapter[k].expiration = hist.storedAt[1] + client.ttl

\* The update lost: both hits got the entry as stored, frequency 1, and the
\* frequency held after both is 2.
C16_Witness ==
    /\ TwoHitsOnly
    /\ \A p \in Procs :
          /\ BytesToResponse(procs[p].obs.got.b).Frequency = 1
          /\ Held(adapter, procs[p].obs.key).Frequency = 2

\* The payload a hit wrote to the client.
ServedValue(o) == o.w.calls[Len(o.w.calls)].b

\* C18. A completed refresh is not undone: a request that arrives after a
\* refresh of its key has released the old entry and stored the new one is
\* never served the payload that refresh released.
C18_RefreshNotUndone ==
    \A p \in Procs :
        (/\ procs[p].obs.outcome = "hit"
         /\ procs[p].saw.new # 0
         /\ procs[p].saw.old # 0)
            => PayloadOf(ServedValue(procs[p].obs)) # procs[p].saw.old

\* C19. Hits never extend the life of an entry: a response served from the
\* cache at time t is the capture of an invocation stored at a time c with
\* t < c + ttl; the entry a hit writes carries the expiration c + ttl of its
\* creation, and the expiration passed to Set, on a hit or after the handler,
\* is the Expiration inside the bytes.
C19_HitsNeverExtend ==
    /\ \A p \in Procs :
          LET o == procs[p].obs
              set == o.calls[Len(o.calls)]
              e == BytesToResponse(set.b)
              n == PayloadOf(e.Value)
          IN  /\ o.outcome = "hit" =>
                    /\ set.op = "Set"
                    /\ n \in 1..hist.inv
                    /\ ServedValue(o) = RunN(n).calls[1].b
                    /\ o.tCheck < hist.storedAt[n] + client.ttl
                    /\ e.Expiration = hist.storedAt[n] + client.ttl
                    /\ set.expiration = e.Expiration
              /\ o.outcome = "forward" =>
                    /\ set.op = "Set"
                    /\ e.Expiration = hist.storedAt[n] + client.ttl
                    /\ set.expiration = e.Expiration
    /\ \A k \in DOMAIN adapter :
          /\ adapter[k].expiration = Held(adapter, k).Expiration
          /\ Held(adapter, k).Expiration =
                hist.storedAt[PayloadOf(Held(adapter, k).Value)] + client.ttl

\* A second hit on an entry, one tick after it was stored: the entry written
\* has frequency 3 and the expiration of its creation.
C19_Witness ==
    \E p \in Procs :
        LET o == procs[p].obs
        IN  /\ o.outcome = "hit"
            /\ BytesToResponse(o.calls[2].b).Frequency = 3
            /\ o.tCheck = hist.storedAt[PayloadOf(ServedValue(o))] + 1
            /\ o.calls[2].expiration = o.tCheck + 1

=============================================================================
